---- MODULE Spec2Model ----
(***************************************************************************)
(* Model of the Strata desktop client's generation controller             *)
(* (apps/desktop/src/hooks/useLLM.ts, lib/events.ts, lib/api.ts).          *)
(*                                                                         *)
(* Text is a sequence of one-character strings.  The backend (Tauri        *)
(* commands and push events) is the environment: it settles the promises   *)
(* of the commands the client invokes and emits llm-stream / llm-complete   *)
(* events, which an order-preserving transport delivers one at a time.     *)
(***************************************************************************)
EXTENDS Integers, Sequences, FiniteSets, TLC

\* ------------------------------------------------------------------ bounds
MaxSends   == 2    \* sendMessage invocations that pass the guard (Spec)
MaxDeltas  == 2    \* llm-stream events the backend emits over a run (Spec)
MaxQueue   == 2    \* push events in flight at once
MaxCancels == 1    \* cancel_generation requests awaiting acknowledgement

\* ------------------------------------------------------- program constants
MaxWindow == 200   \* trimOverlap's default maxWindow

OPEN_TAG  == <<"<", "t", "h", "i", "n", "k", ">">>
CLOSE_TAG == <<"<", "/", "t", "h", "i", "n", "k", ">">>
TYPING    == <<"T", "y", "p", "i", "n", "g", ".", ".", ".">>
ERROR_PFX == <<"[", "E", "R", "R", "O", "R", "]", " ">>

\* ------------------------------------------------------------ input sets
Inputs    == { <<" ">>, <<" ", "q">> }                     \* composer text
Deltas    == { <<>>, <<"a", "b">>, <<"b">> \o OPEN_TAG \o OPEN_TAG }
Finals    == { <<>>, <<"a", "b">> }                        \* llm-complete text
Responses == { <<"o", "k">> }                              \* run_llm result
Errors    == { <<"e">> }                                   \* String(err)

\* accumulated texts and fragments for the reconciler: every text of up to
\* MaxPieces pieces, a text longer than the lookback window, and the texts
\* of the documented example
MaxPieces == 3
Pieces == { <<"a">>, <<" ">>, OPEN_TAG, CLOSE_TAG }

RECURSIVE TextsUpTo(_)
TextsUpTo(n) ==
    IF n = 0 THEN { <<>> }
    ELSE LET shorter == TextsUpTo(n - 1)
         IN  shorter \cup { t \o piece : t \in shorter, piece \in Pieces }

LongText == <<"b">> \o [k \in 1..MaxWindow |-> "a"]
TheQuick == <<"T", "h", "e", " ", "q", "u", "i", "c", "k">>
QuickBrownFox ==
    <<"q", "u", "i", "c", "k", " ", "b", "r", "o", "w", "n", " ", "f", "o", "x">>
Texts == TextsUpTo(MaxPieces) \cup { LongText, TheQuick, QuickBrownFox }

NoHandle == 0
Calls    == 1..(MaxSends + 1)

\* ---- useModels
MAX_RECENT == 5
MaxPending == 2                  \* set_active_model calls of the user in flight
NoModel == "null"                \* selectedModel === null, activeId === null
NoError == "null"                \* error === null
ModelIds == { "A", "B", "C", "D", "E", "F" }
Catalogs == { <<>>, <<"A", "B", "C">>, <<"A", "B", "C", "D", "E", "F">> }
StoredLists == { <<>>, <<"B", "Z">>, <<"Z", "B">>, <<"Z">> }   \* lists stored at mount

\* ---- the item under RECENT_KEY: what getItem and JSON.parse make of it
\* (absent, not JSON, JSON but no array, an array, or storage that cannot be
\* read), the elements of the parsed value, and whether setItem succeeds
JsonString(id) == [isString |-> TRUE, v |-> id]
JsonNumber == [isString |-> FALSE, v |-> "7"]
JsonStrings(ids) == [k \in 1..Len(ids) |-> JsonString(ids[k])]
StoredArray(values) == [item |-> "array", values |-> values, writable |-> TRUE]
ItemKinds == { "absent", "unparsable", "notArray", "unreadable", "array" }
RawItems ==
    { [item |-> "absent", values |-> <<>>],
      [item |-> "unparsable", values |-> <<>>],
      [item |-> "notArray", values |-> JsonStrings(<<"B">>)],
      [item |-> "unreadable", values |-> JsonStrings(<<"B">>)],
      [item |-> "array", values |-> JsonStrings(<<"B", "Z">>)],
      [item |-> "array", values |-> <<JsonNumber, JsonString("B")>>] }
ModelErrors == { "e" }           \* String(e)
NoMeta == "null"                 \* meta === null
MaxMetaCalls == 2                \* get_model_metadata calls in flight
Metas == { "m1", "m2" }          \* what get_model_metadata resolves with
\* importFromDialog() not running
NoImport == [pc |-> "idle", left |-> 0, lastImported |-> NoModel, models |-> <<>>]
MaxFiles == 2                    \* files picked in one import dialog
ImportedIds == { "C", "D" }      \* ids import_model gives the files
Libraries == { <<>>, <<"A", "B", "C">> }   \* the backend's library at mount

VARIABLES
    messages,           \* useState<Message[]>: the transcript
    input,              \* useState: composer text
    isGenerating,       \* useState: the generating flag
    streamingEnabled,   \* useState: mode toggle
    unlistenStreamRef,  \* useRef<UnlistenFn|null>
    unlistenDoneRef,    \* useRef<UnlistenFn|null>
    streamListeners,    \* live "llm-stream" listeners of the event system
    doneListeners,      \* live "llm-complete" listeners of the event system
    nextHandle,         \* next listener handle the event system hands out
    calls,              \* sendMessage invocations: where each is suspended
    req,                \* backend side of each invocation's generate request
    queue,              \* push events in flight, in emission order
    sendsLeft,          \* sendMessage invocations the run may still start
    deltasLeft,         \* llm-stream events the backend may still emit
    cancelPending,      \* cancel_generation promises not yet settled
    cancelRequested,    \* stop() was called since the generating flag was set
    delivered,          \* deltas handed to a live listener since the last seed
    deltaUpdate,        \* the last step's llm-stream dispatch gave React a new array
    models,             \* useModels: useState<ModelEntry[]>, entries named by id
    selectedModel,      \* useModels: useState<ModelEntry|null>
    loading,            \* useModels: useState(true)
    error,              \* useModels: useState<string|null>
    recentIds,          \* useModels: useState<string[]>
    localStorage,       \* the item stored under RECENT_KEY
    refresh,            \* the refresh() call in flight: its position and its list
    pending,            \* number of select() calls of the user awaiting the backend
    importCall,         \* useModels: the importFromDialog() call in flight
    backend,            \* the backend's active id and the set_active_model calls it holds
    meta,               \* useModelMeta: useState<ModelMeta|null>
    metaLoading,        \* useModelMeta: useState(false)
    metaError,          \* useModelMeta: useState<string|null>
    metaCalls,          \* useModelMeta: the get_model_metadata calls in flight
    op                  \* the operation that produced this state

vars == << messages, input, isGenerating, streamingEnabled, unlistenStreamRef,
           unlistenDoneRef, streamListeners, doneListeners, nextHandle, calls,
           req, queue, sendsLeft, deltasLeft, cancelPending, cancelRequested,
           delivered, deltaUpdate, models, selectedModel, loading, error,
           recentIds, localStorage, refresh, pending, importCall, backend,
           meta, metaLoading, metaError, metaCalls, op >>

\* the state of useLLM, the event system and the backend's generation
chatVars == << messages, input, isGenerating, streamingEnabled, unlistenStreamRef,
               unlistenDoneRef, streamListeners, doneListeners, nextHandle, calls,
               req, queue, sendsLeft, deltasLeft, cancelPending, cancelRequested,
               delivered, deltaUpdate >>

\* the state of useModelMeta
metaVars == << meta, metaLoading, metaError, metaCalls >>

\* the state of importFromDialog, of the backend's model registry and of
\* useModelMeta
panelVars == << importCall, backend, meta, metaLoading, metaError, metaCalls >>

\* the state of useModels, useModelMeta and the backend's model registry
modelVars == << models, selectedModel, loading, error, recentIds, localStorage,
                refresh, pending, importCall, backend, meta, metaLoading,
                metaError, metaCalls >>

\* ------------------------------------------------------------ text helpers
Min(a, b) == IF a < b THEN a ELSE b

\* String.prototype.slice(-n) for n >= 0 within the string
SliceLast(s, n) == SubSeq(s, Len(s) - Min(n, Len(s)) + 1, Len(s))

\* String.prototype.slice(0, n)
SliceFirst(s, n) == SubSeq(s, 1, Min(n, Len(s)))

\* String.prototype.slice(n)
SliceFrom(s, n) == SubSeq(s, n + 1, Len(s))

IsSpace(c) == c = " "

RECURSIVE TrimStart(_)
TrimStart(s) ==
    IF s # <<>> /\ IsSpace(Head(s)) THEN TrimStart(Tail(s)) ELSE s

RECURSIVE TrimEnd(_)
TrimEnd(s) ==
    IF s # <<>> /\ IsSpace(s[Len(s)]) THEN TrimEnd(SubSeq(s, 1, Len(s) - 1)) ELSE s

\* String.prototype.trim()
Trim(s) == TrimEnd(TrimStart(s))

StartsWith(s, t) == Len(s) >= Len(t) /\ SubSeq(s, 1, Len(t)) = t

\* number of back-to-back copies of tag at the start of s
RECURSIVE RunLength(_, _)
RunLength(s, tag) ==
    IF StartsWith(s, tag) THEN 1 + RunLength(SliceFrom(s, Len(tag)), tag) ELSE 0

\* s.replace(/(?:tag){2,}/g, tag): the leftmost run of two or more copies is
\* replaced by one copy, and the scan goes on after the run
RECURSIVE CollapseRuns(_, _)
CollapseRuns(s, tag) ==
    LET starts == { k \in 1..Len(s) : RunLength(SliceFrom(s, k - 1), tag) >= 2 }
    IN  IF starts = {} THEN s
        ELSE LET k == CHOOSE k \in starts : \A m \in starts : k <= m
                 n == RunLength(SliceFrom(s, k - 1), tag)
             IN  SliceFirst(s, k - 1) \o tag
                     \o CollapseRuns(SliceFrom(s, k - 1 + n * Len(tag)), tag)

\* trimOverlap searching from length 1 upwards: the shortest overlap wins
trimOverlapShortestFirst(prev, delta) ==
    IF prev = <<>> \/ delta = <<>> THEN delta
    ELSE LET window == SliceLast(prev, MaxWindow)
             maxLen == Min(Len(window), Len(delta))
             hits   == { len \in 1..maxLen :
                            SliceLast(window, len) = SliceFirst(delta, len) }
         IN  IF hits = {} THEN delta
             ELSE SliceFrom(delta, CHOOSE len \in hits : \A m \in hits : len <= m)

\* trimOverlap(prev, delta, maxWindow = 200)
trimOverlap(prev, delta) ==
    IF prev = <<>> \/ delta = <<>> THEN delta
    ELSE LET window == SliceLast(prev, MaxWindow)
             maxLen == Min(Len(window), Len(delta))
             hits   == { len \in 1..maxLen :
                            SliceLast(window, len) = SliceFirst(delta, len) }
         IN  IF hits = {} THEN delta
             ELSE SliceFrom(delta, CHOOSE len \in hits : \A m \in hits : m <= len)

\* the text appendDeltaToLast appends to current for an incoming fragment
DeltaToAppend(current, incoming) ==
    CollapseRuns(CollapseRuns(trimOverlap(current, incoming), OPEN_TAG), CLOSE_TAG)

\* `[ERROR] ${String(err)}`
ErrorText(err) == ERROR_PFX \o err

\* ------------------------------------------------------ transcript parser
\* s.indexOf(t, from), positions counted from 1 and 0 for "not found"
IndexOf(s, t, from) ==
    LET found == { k \in from..(Len(s) - Len(t) + 1) : SubSeq(s, k, k + Len(t) - 1) = t }
    IN  IF found = {} THEN 0 ELSE CHOOSE k \in found : \A m \in found : k <= m

\* s.replace(/tag/g, ""), and s.replace(/(?:tag)+/g, "") alike: the leftmost
\* occurrence goes, and the scan goes on after it
RECURSIVE RemoveAll(_, _)
RemoveAll(s, tag) ==
    LET k == IndexOf(s, tag, 1)
    IN  IF k = 0 THEN s
        ELSE SliceFirst(s, k - 1) \o RemoveAll(SliceFrom(s, k - 1 + Len(tag)), tag)

\* stripThinkTags that leaves close tags in place
stripThinkTagsOpenOnly(s) == RemoveAll(s, OPEN_TAG)

\* stripThinkTags(s)
stripThinkTags(s) == RemoveAll(RemoveAll(s, OPEN_TAG), CLOSE_TAG)

\* a cleanup that collapses a run of open tags to one instead of removing it
CleanThinkCollapses(s) == RemoveAll(CollapseRuns(s, OPEN_TAG), CLOSE_TAG)

\* the cleanup of the reasoning text: nested open tags and stray close tags
CleanThink(s) == RemoveAll(RemoveAll(s, OPEN_TAG), CLOSE_TAG)

\* the parser's result; hasThink is FALSE where `think` is left undefined
Parsed(hasThink, think, visible, isOpen) ==
    [hasThink |-> hasThink, think |-> think, visible |-> visible, isOpen |-> isOpen]

\* a parser that closes the block at the last close tag instead of the first
extractThinkStreamingLastClose(s) ==
    LET openIdx == IndexOf(s, OPEN_TAG, 1)
        closes  == { k \in (openIdx + Len(OPEN_TAG))..Len(s) :
                        openIdx # 0 /\ IndexOf(s, CLOSE_TAG, k) = k }
    IN  IF openIdx = 0
        THEN Parsed(FALSE, <<>>, stripThinkTags(s), FALSE)
        ELSE IF closes = {}
        THEN Parsed(TRUE,
                    Trim(CleanThink(SliceFrom(s, openIdx - 1 + Len(OPEN_TAG)))),
                    Trim(stripThinkTags(SliceFirst(s, openIdx - 1))),
                    TRUE)
        ELSE LET closeIdx == CHOOSE k \in closes : \A m \in closes : m <= k
             IN  Parsed(TRUE,
                        Trim(CleanThink(SubSeq(s, openIdx + Len(OPEN_TAG), closeIdx - 1))),
                        Trim(stripThinkTags(SliceFirst(s, openIdx - 1)
                                 \o SliceFrom(s, closeIdx - 1 + Len(CLOSE_TAG)))),
                        FALSE)

\* extractThinkStreaming(s)
extractThinkStreaming(s) ==
    LET openIdx == IndexOf(s, OPEN_TAG, 1)
    IN  IF openIdx = 0
        THEN Parsed(FALSE, <<>>, stripThinkTags(s), FALSE)
        ELSE LET closeIdx == IndexOf(s, CLOSE_TAG, openIdx + Len(OPEN_TAG))
             IN  IF closeIdx = 0
                 THEN Parsed(TRUE,
                             Trim(CleanThink(SliceFrom(s, openIdx - 1 + Len(OPEN_TAG)))),
                             Trim(stripThinkTags(SliceFirst(s, openIdx - 1))),
                             TRUE)
                 ELSE Parsed(TRUE,
                             Trim(CleanThink(SubSeq(s, openIdx + Len(OPEN_TAG), closeIdx - 1))),
                             Trim(stripThinkTags(SliceFirst(s, openIdx - 1)
                                      \o SliceFrom(s, closeIdx - 1 + Len(CLOSE_TAG)))),
                             FALSE)

\* ------------------------------------------------------ transcript updates
\* an update that writes the text over the first turn
SetFirstAi(msgs, text) ==
    IF Len(msgs) = 0 THEN msgs
    ELSE [msgs EXCEPT ![1].ai = text]

\* { ...last, ai: text } written over the last turn; nothing on an empty list
SetLastAi(msgs, text) ==
    IF Len(msgs) = 0 THEN msgs
    ELSE [msgs EXCEPT ![Len(msgs)].ai = text]

\* appendDeltaToLast(incoming) calls setMessages and its updater returns the
\* copy `out`, not `prev`: React sees a new array, whatever it holds
UpdaterReturnsCopy(msgs, incoming) ==
    /\ incoming # <<>>
    /\ Len(msgs) # 0

\* appendDeltaToLast writing the fragment over the text instead of after it
appendDeltaToLastOverwrites(msgs, incoming) ==
    IF incoming = <<>> THEN msgs
    ELSE IF Len(msgs) = 0 THEN msgs
    ELSE SetLastAi(msgs, incoming)

\* appendDeltaToLast collapsing marker runs in the whole text, old and new
appendDeltaToLastCollapsesAll(msgs, incoming) ==
    IF incoming = <<>> THEN msgs
    ELSE IF Len(msgs) = 0 THEN msgs
    ELSE LET current == msgs[Len(msgs)].ai
             delta   == trimOverlap(current, incoming)
         IN  IF delta = <<>> THEN msgs
             ELSE SetLastAi(msgs, CollapseRuns(CollapseRuns(current \o delta,
                                                            OPEN_TAG), CLOSE_TAG))

\* appendDeltaToLast(incoming)
appendDeltaToLast(msgs, incoming) ==
    IF incoming = <<>> THEN msgs
    ELSE IF Len(msgs) = 0 THEN msgs
    ELSE LET current == msgs[Len(msgs)].ai
             delta   == DeltaToAppend(current, incoming)
         IN  IF delta = <<>> THEN msgs
             ELSE [msgs EXCEPT ![Len(msgs)].ai = current \o delta]

\* one llm-stream event handed to n live listeners, one after the other
RECURSIVE DeliverDelta(_, _, _)
DeliverDelta(msgs, incoming, n) ==
    IF n = 0 THEN msgs
    ELSE DeliverDelta(appendDeltaToLast(msgs, incoming), incoming, n - 1)

\* safeUnlisten(un): un() on a live or dead handle, nothing on null
safeUnlisten(live, un) == IF un = NoHandle THEN live ELSE live \ {un}

\* ------------------------------------------------------------------ state
Op(name, sid, text) == [name |-> name, sid |-> sid, text |-> text]

\* the invocation the next sendMessage call becomes
NextCall == Cardinality({ i \in Calls : calls[i].pc # "idle" }) + 1

\* the state after useModels' first render over a stored recency list
ModelsMounted(stored) ==
    /\ models = <<>>
    /\ selectedModel = NoModel
    /\ loading = TRUE
    /\ error = NoError
    /\ recentIds = stored
    /\ localStorage = StoredArray(JsonStrings(stored))
    /\ refresh = [pc |-> "idle", list |-> <<>>]
    /\ pending = 0
    /\ importCall = NoImport

\* the state after useModelMeta's first render and effect, no model selected
MetaMounted ==
    /\ meta = NoMeta
    /\ metaLoading = FALSE
    /\ metaError = NoError
    /\ metaCalls = <<>>

\* the backend's model registry: its library, its active id, and no
\* set_active_model call in flight
BackendAt(list, active) ==
    backend = [models |-> list, active |-> active, calls |-> <<>>]

\* the state after useLLM's first render, with nothing in flight
ChatMounted ==
    /\ messages = <<>>
    /\ input = <<>>
    /\ isGenerating = FALSE
    /\ streamingEnabled = TRUE
    /\ unlistenStreamRef = NoHandle
    /\ unlistenDoneRef = NoHandle
    /\ streamListeners = {}
    /\ doneListeners = {}
    /\ nextHandle = 1
    /\ calls = [i \in Calls |-> [pc |-> "idle", hs |-> NoHandle, hd |-> NoHandle]]
    /\ req = [i \in Calls |-> "none"]
    /\ queue = <<>>
    /\ cancelPending = 0
    /\ cancelRequested = FALSE
    /\ delivered = <<>>
    /\ deltaUpdate = FALSE
    /\ op = Op("init", 0, <<>>)

\* the state after the first render of the chat page, nothing stored
Mounted ==
    /\ ChatMounted
    /\ ModelsMounted(<<>>)
    /\ MetaMounted
    /\ BackendAt(<<>>, NoModel)

Init ==
    /\ Mounted
    /\ sendsLeft = MaxSends
    /\ deltasLeft = MaxDeltas

\* ------------------------------------------------------------ user actions
\* setInput(v): the composer's onChange
SetInput(v) ==
    /\ input # v
    /\ input' = v
    /\ op' = Op("setInput", 0, <<>>)
    /\ UNCHANGED << messages, isGenerating, streamingEnabled, unlistenStreamRef,
                    unlistenDoneRef, streamListeners, doneListeners, nextHandle,
                    calls, req, queue, sendsLeft, deltasLeft, cancelPending, cancelRequested >>
    /\ UNCHANGED << delivered, modelVars >>
    /\ deltaUpdate' = FALSE

\* setStreamingEnabled((v) => !v)
ToggleStreaming ==
    /\ streamingEnabled' = ~streamingEnabled
    /\ op' = Op("toggle", 0, <<>>)
    /\ UNCHANGED << messages, input, isGenerating, unlistenStreamRef,
                    unlistenDoneRef, streamListeners, doneListeners, nextHandle,
                    calls, req, queue, sendsLeft, deltasLeft, cancelPending, cancelRequested >>
    /\ UNCHANGED << delivered, modelVars >>
    /\ deltaUpdate' = FALSE

\* newChat()
NewChat ==
    /\ messages # <<>> \/ input # <<>>
    /\ messages' = <<>>
    /\ input' = <<>>
    /\ op' = Op("newChat", 0, <<>>)
    /\ UNCHANGED << isGenerating, streamingEnabled, unlistenStreamRef,
                    unlistenDoneRef, streamListeners, doneListeners, nextHandle,
                    calls, req, queue, sendsLeft, deltasLeft, cancelPending, cancelRequested >>
    /\ UNCHANGED << delivered, modelVars >>
    /\ deltaUpdate' = FALSE

\* sendMessage's guard without its isGenerating test
SendRefusedOnEmptyOnly == Trim(input) = <<>>

\* whether sendMessage returns at its guard
SendRefused == Trim(input) = <<>> \/ isGenerating

\* sendMessage(), from the call to its first await.  The turn's sid field is
\* not program state: it names the invocation that seeded the turn.
SendMessage ==
    /\ ~SendRefused
    /\ sendsLeft > 0
    /\ LET i == NextCall
           prompt == Trim(input)
       IN  /\ messages' = Append(messages,
                  [user |-> prompt,
                   ai   |-> IF streamingEnabled THEN <<>> ELSE TYPING,
                   sid  |-> i])
           /\ input' = <<>>
           /\ isGenerating' = TRUE
           /\ calls' = [calls EXCEPT ![i].pc =
                  IF streamingEnabled THEN "listenStream" ELSE "generate"]
           /\ req' = [req EXCEPT ![i] =
                  IF streamingEnabled THEN "none" ELSE "single"]
           /\ op' = Op("send", i, prompt)
    /\ sendsLeft' = sendsLeft - 1
    /\ cancelRequested' = FALSE
    /\ delivered' = <<>>
    /\ deltaUpdate' = FALSE
    /\ UNCHANGED modelVars
    /\ UNCHANGED << streamingEnabled, unlistenStreamRef, unlistenDoneRef,
                    streamListeners, doneListeners, nextHandle, queue,
                    deltasLeft, cancelPending >>

\* a stop() that ends the session itself instead of waiting for completion
StopEndsSession ==
    /\ cancelPending < MaxCancels
    /\ cancelPending' = cancelPending + 1
    /\ cancelRequested' = isGenerating
    /\ isGenerating' = FALSE
    /\ streamListeners' = safeUnlisten(streamListeners, unlistenStreamRef)
    /\ doneListeners' = safeUnlisten(doneListeners, unlistenDoneRef)
    /\ unlistenStreamRef' = NoHandle
    /\ unlistenDoneRef' = NoHandle
    /\ op' = Op("stop", 0, <<>>)
    /\ UNCHANGED << messages, input, streamingEnabled, nextHandle, calls, req,
                    queue, sendsLeft, deltasLeft >>
    /\ UNCHANGED << delivered, modelVars >>
    /\ deltaUpdate' = FALSE

\* stop(): cancelGeneration() is requested
Stop ==
    /\ cancelPending < MaxCancels
    /\ cancelPending' = cancelPending + 1
    /\ cancelRequested' = isGenerating
    /\ op' = Op("stop", 0, <<>>)
    /\ UNCHANGED << messages, input, isGenerating, streamingEnabled,
                    unlistenStreamRef, unlistenDoneRef, streamListeners,
                    doneListeners, nextHandle, calls, req, queue, sendsLeft, deltasLeft >>
    /\ UNCHANGED << delivered, modelVars >>
    /\ deltaUpdate' = FALSE

\* stop(): the awaited cancelGeneration() resolves
StopResolved ==
    /\ cancelPending > 0
    /\ cancelPending' = cancelPending - 1
    /\ op' = Op("stopResolved", 0, <<>>)
    /\ UNCHANGED << messages, input, isGenerating, streamingEnabled,
                    unlistenStreamRef, unlistenDoneRef, streamListeners,
                    doneListeners, nextHandle, calls, req, queue, sendsLeft, deltasLeft,
                    cancelRequested >>
    /\ UNCHANGED << delivered, modelVars >>
    /\ deltaUpdate' = FALSE

\* stop(): the awaited cancelGeneration() rejects; the catch logs it
StopRejected ==
    /\ cancelPending > 0
    /\ cancelPending' = cancelPending - 1
    /\ op' = Op("stopRejected", 0, <<>>)
    /\ UNCHANGED << messages, input, isGenerating, streamingEnabled,
                    unlistenStreamRef, unlistenDoneRef, streamListeners,
                    doneListeners, nextHandle, calls, req, queue, sendsLeft, deltasLeft,
                    cancelRequested >>
    /\ UNCHANGED << delivered, modelVars >>
    /\ deltaUpdate' = FALSE

\* ------------------------------------------- sendMessage: streaming path
\* the catch block of the streaming path, run by invocation i
CatchStream(i, err) ==
    /\ messages' = SetLastAi(messages, ErrorText(err))
    /\ isGenerating' = FALSE
    /\ streamListeners' = safeUnlisten(streamListeners, unlistenStreamRef)
    /\ doneListeners' = safeUnlisten(doneListeners, unlistenDoneRef)
    /\ unlistenStreamRef' = NoHandle
    /\ unlistenDoneRef' = NoHandle
    /\ calls' = [calls EXCEPT ![i].pc = "caught"]
    /\ cancelRequested' = FALSE
    /\ op' = Op("catch", i, err)

\* an llm-complete handler that keeps the reconciled text
CompleteHandlerKeepsText(finalText) ==
    /\ messages' = messages
    /\ isGenerating' = FALSE
    /\ streamListeners' = safeUnlisten(streamListeners, unlistenStreamRef)
    /\ doneListeners' = safeUnlisten(doneListeners, unlistenDoneRef)
    /\ unlistenStreamRef' = NoHandle
    /\ unlistenDoneRef' = NoHandle
    /\ cancelRequested' = FALSE

\* the llm-complete handler registered by sendMessage
CompleteHandler(finalText) ==
    /\ messages' = IF finalText # <<>> THEN SetLastAi(messages, finalText)
                   ELSE messages
    /\ isGenerating' = FALSE
    /\ streamListeners' = safeUnlisten(streamListeners, unlistenStreamRef)
    /\ doneListeners' = safeUnlisten(doneListeners, unlistenDoneRef)
    /\ unlistenStreamRef' = NoHandle
    /\ unlistenDoneRef' = NoHandle
    /\ cancelRequested' = FALSE

\* the streaming path with runLLMStream(...) called before onLLMComplete(...)
ListenStreamThenInvoke(i) ==
    /\ calls[i].pc = "listenStream"
    /\ streamListeners' = streamListeners \cup {nextHandle}
    /\ unlistenStreamRef' = nextHandle
    /\ nextHandle' = nextHandle + 1
    /\ calls' = [calls EXCEPT ![i].pc = "listenDone", ![i].hs = nextHandle]
    /\ req' = [req EXCEPT ![i] = "running"]
    /\ op' = Op("listenStream", i, <<>>)
    /\ UNCHANGED << messages, input, isGenerating, streamingEnabled,
                    unlistenDoneRef, doneListeners, queue, sendsLeft,
                    deltasLeft, cancelPending, cancelRequested >>
    /\ UNCHANGED << delivered, modelVars >>
    /\ deltaUpdate' = FALSE

\* await onLLMStream(...) resolves: the listener is live, its handle is kept,
\* and onLLMComplete(...) is called
ListenStreamResolved(i) ==
    /\ calls[i].pc = "listenStream"
    /\ streamListeners' = streamListeners \cup {nextHandle}
    /\ unlistenStreamRef' = nextHandle
    /\ nextHandle' = nextHandle + 1
    /\ calls' = [calls EXCEPT ![i].pc = "listenDone", ![i].hs = nextHandle]
    /\ op' = Op("listenStream", i, <<>>)
    /\ UNCHANGED << messages, input, isGenerating, streamingEnabled,
                    unlistenDoneRef, doneListeners, req, queue, sendsLeft, deltasLeft,
                    cancelPending, cancelRequested >>
    /\ UNCHANGED << delivered, modelVars >>
    /\ deltaUpdate' = FALSE

\* await onLLMStream(...) rejects
ListenStreamRejected(i, err) ==
    /\ calls[i].pc = "listenStream"
    /\ CatchStream(i, err)
    /\ UNCHANGED << input, streamingEnabled, nextHandle, req, queue, sendsLeft, deltasLeft,
                    cancelPending >>
    /\ UNCHANGED << delivered, modelVars >>
    /\ deltaUpdate' = FALSE

\* await onLLMComplete(...) resolves: the listener is live, its handle is
\* kept, and runLLMStream(...) issues the generate_stream request
ListenDoneResolved(i) ==
    /\ calls[i].pc = "listenDone"
    /\ doneListeners' = doneListeners \cup {nextHandle}
    /\ unlistenDoneRef' = nextHandle
    /\ nextHandle' = nextHandle + 1
    /\ calls' = [calls EXCEPT ![i].pc = "stream", ![i].hd = nextHandle]
    /\ req' = [req EXCEPT ![i] = "running"]
    /\ op' = Op("listenDone", i, <<>>)
    /\ UNCHANGED << messages, input, isGenerating, streamingEnabled,
                    unlistenStreamRef, streamListeners, queue, sendsLeft, deltasLeft,
                    cancelPending, cancelRequested >>
    /\ UNCHANGED << delivered, modelVars >>
    /\ deltaUpdate' = FALSE

\* await onLLMComplete(...) rejects
ListenDoneRejected(i, err) ==
    /\ calls[i].pc = "listenDone"
    /\ CatchStream(i, err)
    /\ UNCHANGED << input, streamingEnabled, nextHandle, req, queue, sendsLeft, deltasLeft,
                    cancelPending >>
    /\ UNCHANGED << delivered, modelVars >>
    /\ deltaUpdate' = FALSE

\* await runLLMStream(...) resolves: sendMessage returns
StreamResolved(i) ==
    /\ calls[i].pc = "stream"
    /\ calls' = [calls EXCEPT ![i].pc = "done"]
    /\ op' = Op("streamResolved", i, <<>>)
    /\ UNCHANGED << messages, input, isGenerating, streamingEnabled,
                    unlistenStreamRef, unlistenDoneRef, streamListeners,
                    doneListeners, nextHandle, req, queue, sendsLeft, deltasLeft,
                    cancelPending, cancelRequested >>
    /\ UNCHANGED << delivered, modelVars >>
    /\ deltaUpdate' = FALSE

\* await runLLMStream(...) rejects; a backend still generating gives up
StreamRejected(i, err) ==
    /\ calls[i].pc = "stream"
    /\ CatchStream(i, err)
    /\ req' = [req EXCEPT ![i] = IF @ = "running" THEN "failed" ELSE @]
    /\ UNCHANGED << input, streamingEnabled, nextHandle, queue, sendsLeft, deltasLeft,
                    cancelPending >>
    /\ UNCHANGED << delivered, modelVars >>
    /\ deltaUpdate' = FALSE

\* --------------------------------------- sendMessage: non-streaming path
\* await runLLM(...) resolves; then the finally block
GenerateResolved(i, response) ==
    /\ calls[i].pc = "generate"
    /\ messages' = SetLastAi(messages, response)
    /\ isGenerating' = FALSE
    /\ calls' = [calls EXCEPT ![i].pc = "done"]
    /\ req' = [req EXCEPT ![i] = "singleDone"]
    /\ cancelRequested' = FALSE
    /\ op' = Op("generateResolved", i, response)
    /\ UNCHANGED << input, streamingEnabled, unlistenStreamRef, unlistenDoneRef,
                    streamListeners, doneListeners, nextHandle, queue, sendsLeft, deltasLeft,
                    cancelPending >>
    /\ UNCHANGED << delivered, modelVars >>
    /\ deltaUpdate' = FALSE

\* await runLLM(...) rejects; then the finally block
GenerateRejected(i, err) ==
    /\ calls[i].pc = "generate"
    /\ messages' = SetLastAi(messages, ErrorText(err))
    /\ isGenerating' = FALSE
    /\ calls' = [calls EXCEPT ![i].pc = "done"]
    /\ req' = [req EXCEPT ![i] = "singleFailed"]
    /\ cancelRequested' = FALSE
    /\ op' = Op("generateRejected", i, err)
    /\ UNCHANGED << input, streamingEnabled, unlistenStreamRef, unlistenDoneRef,
                    streamListeners, doneListeners, nextHandle, queue, sendsLeft, deltasLeft,
                    cancelPending >>
    /\ UNCHANGED << delivered, modelVars >>
    /\ deltaUpdate' = FALSE

\* ------------------------------------------------ backend and transport
\* the backend emits llm-stream { delta } for a running generate_stream.  An
\* event's sid field is not on the wire: it names the request it was emitted for.
EmitDelta(i, d) ==
    /\ req[i] = "running"
    /\ deltasLeft > 0
    /\ Len(queue) < MaxQueue
    /\ queue' = Append(queue, [type |-> "delta", text |-> d, sid |-> i])
    /\ deltasLeft' = deltasLeft - 1
    /\ op' = Op("emitDelta", i, d)
    /\ UNCHANGED << messages, input, isGenerating, streamingEnabled,
                    unlistenStreamRef, unlistenDoneRef, streamListeners,
                    doneListeners, nextHandle, calls, req, sendsLeft,
                    cancelPending, cancelRequested >>
    /\ UNCHANGED << delivered, modelVars >>
    /\ deltaUpdate' = FALSE

\* the backend emits llm-complete { text }, once per generate_stream
EmitComplete(i, t) ==
    /\ req[i] = "running"
    /\ Len(queue) < MaxQueue
    /\ queue' = Append(queue, [type |-> "complete", text |-> t, sid |-> i])
    /\ req' = [req EXCEPT ![i] = "completed"]
    /\ op' = Op("emitComplete", i, t)
    /\ UNCHANGED << messages, input, isGenerating, streamingEnabled,
                    unlistenStreamRef, unlistenDoneRef, streamListeners,
                    doneListeners, nextHandle, calls, sendsLeft, deltasLeft, cancelPending,
                    cancelRequested >>
    /\ UNCHANGED << delivered, modelVars >>
    /\ deltaUpdate' = FALSE

\* a delivery that discards llm-stream events once cancel has been requested
DeliverStreamUnlessCancelled ==
    /\ queue # <<>>
    /\ Head(queue).type = "delta"
    /\ queue' = Tail(queue)
    /\ messages' = IF cancelRequested THEN messages
                   ELSE DeliverDelta(messages, Head(queue).text,
                                     Cardinality(streamListeners))
    /\ op' = Op(IF streamListeners = {} THEN "deltaDropped" ELSE "delta",
                Head(queue).sid, Head(queue).text)
    /\ UNCHANGED << input, isGenerating, streamingEnabled, unlistenStreamRef,
                    unlistenDoneRef, streamListeners, doneListeners, nextHandle,
                    calls, req, sendsLeft, deltasLeft, cancelPending,
                    cancelRequested >>
    /\ delivered' = IF streamListeners = {} THEN delivered
                    ELSE Append(delivered, Head(queue).text)
    /\ deltaUpdate' = (streamListeners # {}
                       /\ UpdaterReturnsCopy(messages, Head(queue).text))
    /\ UNCHANGED modelVars

\* the transport delivers the oldest llm-stream event to the live listeners;
\* delivered records it, for the claims only
DeliverStream ==
    /\ queue # <<>>
    /\ Head(queue).type = "delta"
    /\ queue' = Tail(queue)
    /\ messages' = DeliverDelta(messages, Head(queue).text,
                                Cardinality(streamListeners))
    /\ op' = Op(IF streamListeners = {} THEN "deltaDropped" ELSE "delta",
                Head(queue).sid, Head(queue).text)
    /\ UNCHANGED << input, isGenerating, streamingEnabled, unlistenStreamRef,
                    unlistenDoneRef, streamListeners, doneListeners, nextHandle,
                    calls, req, sendsLeft, deltasLeft, cancelPending, cancelRequested >>
    /\ delivered' = IF streamListeners = {} THEN delivered
                    ELSE Append(delivered, Head(queue).text)
    /\ deltaUpdate' = (streamListeners # {}
                       /\ UpdaterReturnsCopy(messages, Head(queue).text))
    /\ UNCHANGED modelVars

\* the transport delivers the oldest llm-complete event to the live listeners
DeliverComplete ==
    /\ queue # <<>>
    /\ Head(queue).type = "complete"
    /\ queue' = Tail(queue)
    /\ IF doneListeners # {}
       THEN /\ CompleteHandler(Head(queue).text)
            /\ op' = Op("complete", Head(queue).sid, Head(queue).text)
       ELSE /\ op' = Op("completeDropped", Head(queue).sid, Head(queue).text)
            /\ UNCHANGED << messages, isGenerating, streamListeners,
                            doneListeners, unlistenStreamRef, unlistenDoneRef,
                            cancelRequested >>
    /\ UNCHANGED << input, streamingEnabled, nextHandle, calls, req, sendsLeft, deltasLeft,
                    cancelPending >>
    /\ UNCHANGED << delivered, modelVars >>
    /\ deltaUpdate' = FALSE

\* ---------------------------------------------------------------- useModels
\* the ids of a list of entries
IdsOf(list) == { list[k] : k \in 1..Len(list) }

\* prev.filter((x) => x !== id)
Without(list, id) == SelectSeq(list, LAMBDA x : x # id)

\* saveRecentIds storing the whole list
saveRecentIdsUncapped(ids) ==
    IF localStorage.writable
    THEN [localStorage EXCEPT !.item = "array", !.values = JsonStrings(ids)]
    ELSE localStorage

\* the item after saveRecentIds(ids): JSON of ids.slice(0, MAX_RECENT), or
\* the old item when setItem throws
saveRecentIds(ids) ==
    IF localStorage.writable
    THEN [localStorage EXCEPT !.item = "array",
                              !.values = JsonStrings(SliceFirst(ids, MAX_RECENT))]
    ELSE localStorage

\* the strings among the elements of a parsed value
StringsOf(values) ==
    LET strings == SelectSeq(values, LAMBDA x : x.isString)
    IN  [k \in 1..Len(strings) |-> strings[k].v]

\* a loadRecentIds that filters whatever JSON.parse returns
loadRecentIdsAnyJson ==
    IF localStorage.item \in {"array", "notArray"}
    THEN StringsOf(localStorage.values)
    ELSE <<>>

\* loadRecentIds(): [] when the item is absent, when getItem or JSON.parse
\* throws and when the parsed value is no array, else the strings of the array
loadRecentIds ==
    IF localStorage.item = "array"
    THEN StringsOf(localStorage.values)
    ELSE <<>>

\* the first occurrences of a list, in order
RECURSIVE Unique(_)
Unique(list) ==
    IF list = <<>> THEN <<>>
    ELSE <<Head(list)>> \o Unique(Without(Tail(list), Head(list)))

\* the `recent` memo computed from the catalog and the list in memory
recentOf(catalog, ids) ==
    IF catalog = <<>> \/ ids = <<>> THEN <<>>
    ELSE SliceFirst(Unique(SelectSeq(ids, LAMBDA id : id \in IdsOf(catalog))),
                    MAX_RECENT)

\* the `recent` list the hook returns
recent == recentOf(models, recentIds)

\* a selection that looks at the stored list before the backend's active id
PickOnRefreshRecentFirst(list, activeId, stored) ==
    LET known == SelectSeq(stored, LAMBDA id : id \in IdsOf(list))
    IN  IF known # <<>> THEN Head(known)
        ELSE IF activeId # NoModel /\ activeId \in IdsOf(list) THEN activeId
        ELSE list[1]

\* the selection refresh() makes from a non-empty list
PickOnRefresh(list, activeId, stored) ==
    IF activeId # NoModel /\ activeId \in IdsOf(list) THEN activeId
    ELSE LET known == SelectSeq(stored, LAMBDA id : id \in IdsOf(list))
         IN  IF known # <<>> THEN Head(known) ELSE list[1]

\* select(m) up to its await: setSelectedModel(m); recordRecent(m.id)
SelectSync(m) ==
    /\ selectedModel' = m
    /\ recentIds' = <<m>> \o Without(recentIds, m)
    /\ localStorage' = saveRecentIds(<<m>> \o Without(recentIds, m))

\* the user picks an entry of the catalog: select(m) runs up to its await
Select(m) ==
    /\ m \in IdsOf(models)
    /\ pending < MaxPending
    /\ SelectSync(m)
    /\ pending' = pending + 1
    /\ op' = Op("select", 0, <<m>>)
    /\ UNCHANGED << models, loading, error, refresh, chatVars >>

\* await setActiveModelCmd(m.id) resolves in a select() of the user
SelectResolved ==
    /\ pending > 0
    /\ pending' = pending - 1
    /\ op' = Op("setActiveResolved", 0, <<>>)
    /\ UNCHANGED << models, selectedModel, loading, error, recentIds, localStorage,
                    refresh, chatVars >>

\* a rejection that undoes the selection and reports the error
SelectRejectedRollsBack(err) ==
    /\ pending > 0
    /\ pending' = pending - 1
    /\ selectedModel' = NoModel
    /\ error' = err
    /\ op' = Op("setActiveRejected", 0, <<err>>)
    /\ UNCHANGED << models, loading, recentIds, localStorage, refresh, chatVars >>

\* it rejects: console.error, nothing else
SelectRejected(err) ==
    /\ pending > 0
    /\ pending' = pending - 1
    /\ op' = Op("setActiveRejected", 0, <<err>>)
    /\ UNCHANGED << models, selectedModel, loading, error, recentIds, localStorage,
                    refresh, chatVars >>

\* refresh() is called (on mount, after an import): up to await getModelList()
Refresh ==
    /\ refresh.pc = "idle"
    /\ loading' = TRUE
    /\ error' = NoError
    /\ refresh' = [pc |-> "list", list |-> <<>>]
    /\ op' = Op("refresh", 0, <<>>)
    /\ UNCHANGED << models, selectedModel, recentIds, localStorage, pending, chatVars >>

\* a catch block that reports the error and leaves the catalog and the
\* selection as they are
RefreshFailedKeepsCatalog(err) ==
    /\ error' = err
    /\ loading' = FALSE
    /\ refresh' = [pc |-> "idle", list |-> <<>>]
    /\ UNCHANGED << models, selectedModel >>

\* the catch and finally blocks of refresh()
RefreshFailed(err) ==
    /\ error' = err
    /\ models' = <<>>
    /\ selectedModel' = NoModel
    /\ loading' = FALSE
    /\ refresh' = [pc |-> "idle", list |-> <<>>]

\* await getModelList() resolves; an empty list ends the refresh
ListResolved(list) ==
    /\ refresh.pc = "list"
    /\ models' = list
    /\ IF list = <<>>
       THEN /\ selectedModel' = NoModel
            /\ loading' = FALSE
            /\ refresh' = [pc |-> "idle", list |-> <<>>]
       ELSE /\ refresh' = [pc |-> "active", list |-> list]
            /\ UNCHANGED << selectedModel, loading >>
    /\ op' = Op("listResolved", 0, list)
    /\ UNCHANGED << error, recentIds, localStorage, pending, chatVars >>

\* await getModelList() rejects
ListRejected(err) ==
    /\ refresh.pc = "list"
    /\ RefreshFailed(err)
    /\ op' = Op("listRejected", 0, <<err>>)
    /\ UNCHANGED << recentIds, localStorage, pending, chatVars >>

\* await getActiveModel() resolves: the pick is made and select(pick) runs
\* up to its await
ActiveResolved(activeId) ==
    /\ refresh.pc = "active"
    /\ SelectSync(PickOnRefresh(refresh.list, activeId, loadRecentIds))
    /\ refresh' = [refresh EXCEPT !.pc = "select"]
    /\ op' = Op("activeResolved", 0, <<activeId>>)
    /\ UNCHANGED << models, loading, error, pending, chatVars >>

\* await getActiveModel() rejects
ActiveRejected(err) ==
    /\ refresh.pc = "active"
    /\ RefreshFailed(err)
    /\ op' = Op("activeRejected", 0, <<err>>)
    /\ UNCHANGED << recentIds, localStorage, pending, chatVars >>

\* await select(pick) returns in refresh(), whether set_active_model
\* succeeded or failed and was logged; then the finally block
RefreshSelectSettled(ok) ==
    /\ refresh.pc = "select"
    /\ loading' = FALSE
    /\ refresh' = [pc |-> "idle", list |-> <<>>]
    /\ op' = Op(IF ok THEN "setActiveResolved" ELSE "setActiveRejected", 1, <<>>)
    /\ UNCHANGED << models, selectedModel, error, recentIds, localStorage, pending,
                    chatVars >>

\* the state after useModels' first render over any item in storage: the
\* recency list starts as loadRecentIds() reads it
ModelsMountedOver(store) ==
    /\ models = <<>>
    /\ selectedModel = NoModel
    /\ loading = TRUE
    /\ error = NoError
    /\ localStorage = store
    /\ recentIds = loadRecentIds
    /\ refresh = [pc |-> "idle", list |-> <<>>]
    /\ pending = 0
    /\ importCall = NoImport

\* the state after a first refresh over nothing stored that listed the
\* catalog and selected the backend's active model
ModelsLoaded(list, active) ==
    /\ models = list
    /\ selectedModel = active
    /\ loading = FALSE
    /\ error = NoError
    /\ recentIds = <<active>>
    /\ localStorage = StoredArray(JsonStrings(<<active>>))
    /\ refresh = [pc |-> "idle", list |-> <<>>]
    /\ pending = 0
    /\ importCall = NoImport

InitModels ==
    /\ ChatMounted
    /\ sendsLeft = 0
    /\ deltasLeft = 0
    /\ \E stored \in StoredLists : ModelsMounted(stored)
    /\ MetaMounted
    /\ BackendAt(<<>>, NoModel)

NextModels ==
    \/ \E m \in ModelIds : Select(m) /\ UNCHANGED panelVars
    \/ SelectResolved /\ UNCHANGED panelVars
    \/ \E err \in ModelErrors : SelectRejected(err) /\ UNCHANGED panelVars
    \/ Refresh /\ UNCHANGED panelVars
    \/ \E list \in Catalogs : ListResolved(list) /\ UNCHANGED panelVars
    \/ \E err \in ModelErrors : ListRejected(err) /\ UNCHANGED panelVars
    \/ \E activeId \in ModelIds \cup {NoModel} :
           ActiveResolved(activeId) /\ UNCHANGED panelVars
    \/ \E err \in ModelErrors : ActiveRejected(err) /\ UNCHANGED panelVars
    \/ \E ok \in BOOLEAN : RefreshSelectSettled(ok) /\ UNCHANGED panelVars

SpecModels == InitModels /\ [][NextModels]_vars

\* The models panel over storage in any condition: the item found at mount
\* is absent, broken or an array, and setItem works or throws.
InitStorage ==
    /\ ChatMounted
    /\ sendsLeft = 0
    /\ deltasLeft = 0
    /\ \E raw \in RawItems, w \in BOOLEAN :
           ModelsMountedOver([item |-> raw.item, values |-> raw.values,
                              writable |-> w])
    /\ MetaMounted
    /\ BackendAt(<<>>, NoModel)

SpecStorage == InitStorage /\ [][NextModels]_vars

\* ------------------------------------------- the backend's model registry
\* The backend is external: set_active_model calls are held from the invoke
\* to the response, and the backend handles the calls it holds in any order.
SetActiveCall(id, owner) == [id |-> id, owner |-> owner, state |-> "sent"]

\* invoke("set_active_model_cmd", { name })
Sent(id, owner) == [backend EXCEPT !.calls = Append(@, SetActiveCall(id, owner))]

RemoveAt(seq, k) == SubSeq(seq, 1, k - 1) \o SubSeq(seq, k + 1, Len(seq))

\* the calls of an owner the backend has handled with the given outcome
Answered(owner, state) ==
    { k \in 1..Len(backend.calls) :
          backend.calls[k].owner = owner /\ backend.calls[k].state = state }

\* the backend handles one of the set_active_model calls it holds
BackendSetsActive(k) ==
    /\ k \in 1..Len(backend.calls)
    /\ backend.calls[k].state = "sent"
    /\ backend' = [backend EXCEPT !.active = backend.calls[k].id,
                                  !.calls[k].state = "ok"]
    /\ op' = Op("backendSetActive", 0, <<backend.calls[k].id>>)
    /\ UNCHANGED << models, selectedModel, loading, error, recentIds, localStorage,
                    refresh, pending, importCall, metaVars, chatVars >>

\* the backend fails one of the set_active_model calls it holds
BackendRefusesActive(k) ==
    /\ k \in 1..Len(backend.calls)
    /\ backend.calls[k].state = "sent"
    /\ backend' = [backend EXCEPT !.calls[k].state = "failed"]
    /\ op' = Op("backendRefuseActive", 0, <<backend.calls[k].id>>)
    /\ UNCHANGED << models, selectedModel, loading, error, recentIds, localStorage,
                    refresh, pending, importCall, metaVars, chatVars >>

\* select(m) of the user, its call reaching the backend
SelectSent(m) ==
    /\ Select(m)
    /\ backend' = Sent(m, "user")

\* the response of a handled call resolves the await of a select()
SelectAnswered ==
    \E k \in Answered("user", "ok") :
        /\ SelectResolved
        /\ backend' = [backend EXCEPT !.calls = RemoveAt(@, k)]

\* the response of a failed call rejects the await of a select()
SelectRefused(err) ==
    \E k \in Answered("user", "failed") :
        /\ SelectRejected(err)
        /\ backend' = [backend EXCEPT !.calls = RemoveAt(@, k)]

\* get_model_list answers with the backend's library
ListAnswered == ListResolved(backend.models) /\ UNCHANGED backend

\* get_active_model answers with the backend's active id, and refresh()
\* sends set_active_model for its pick
ActiveAnswered ==
    /\ ActiveResolved(backend.active)
    /\ backend' = Sent(PickOnRefresh(refresh.list, backend.active, loadRecentIds),
                       "refresh")

\* the response to the set_active_model call of refresh()
RefreshSelectAnswered ==
    \E ok \in BOOLEAN :
        \E k \in Answered("refresh", IF ok THEN "ok" ELSE "failed") :
            /\ RefreshSelectSettled(ok)
            /\ backend' = [backend EXCEPT !.calls = RemoveAt(@, k)]

\* --------------------------------------------------------- importFromDialog
\* refresh() as importFromDialog calls it after the last file
RefreshAfterImport ==
    /\ loading' = TRUE
    /\ error' = NoError
    /\ refresh' = [pc |-> "list", list |-> <<>>]

\* the user picks n files in the dialog: the loop awaits the first import.
\* The callback holds the catalog of the render it was created in.
ImportFromDialog(n) ==
    /\ importCall.pc = "idle"
    /\ refresh.pc = "idle"
    /\ pending < MaxPending
    /\ importCall' = [pc |-> "importing", left |-> n, lastImported |-> NoModel,
                      models |-> models]
    /\ op' = Op("import", 0, <<>>)
    /\ UNCHANGED << models, selectedModel, loading, error, recentIds, localStorage,
                    refresh, pending, backend, metaVars, chatVars >>

\* the loop moves to the next file, or calls refresh() after the last one
ImportNext(last) ==
    /\ importCall.pc = "importing"
    /\ importCall' = [importCall EXCEPT
                          !.left = @ - 1,
                          !.lastImported = last,
                          !.pc = IF importCall.left = 1 THEN "refreshing" ELSE @]
    /\ IF importCall.left = 1
       THEN RefreshAfterImport
       ELSE UNCHANGED << loading, error, refresh >>
    /\ UNCHANGED << models, selectedModel, recentIds, localStorage, pending,
                    metaVars, chatVars >>

\* import_model copies the file into the library and resolves with its entry
ImportResolved(id) ==
    /\ ImportNext(id)
    /\ backend' = [backend EXCEPT
                       !.models = IF id \in IdsOf(@) THEN @ ELSE Append(@, id)]
    /\ op' = Op("importResolved", 0, <<id>>)

\* import_model rejects: console.error, the loop goes on
ImportRejected ==
    /\ ImportNext(importCall.lastImported)
    /\ op' = Op("importRejected", 0, <<>>)
    /\ UNCHANGED backend

\* the await of refresh() in importFromDialog is over
RefreshAwaited == importCall.pc = "refreshing" /\ refresh.pc = "idle"

\* importFromDialog selects the entry it found: select(entry) up to its await
ImportSelects(id) ==
    /\ SelectSync(id)
    /\ pending' = pending + 1
    /\ backend' = Sent(id, "user")

\* importFromDialog returns without selecting
ImportReturns == UNCHANGED << selectedModel, recentIds, localStorage, pending, backend >>

\* after await refresh(): the last imported id is looked up in the catalog
\* the callback holds, or the list is fetched when that catalog is empty
ImportAfterRefresh ==
    /\ RefreshAwaited
    /\ IF importCall.lastImported = NoModel
       THEN /\ importCall' = NoImport
            /\ ImportReturns
       ELSE IF importCall.models = <<>>
       THEN /\ importCall' = [importCall EXCEPT !.pc = "relist"]
            /\ ImportReturns
       ELSE /\ importCall' = NoImport
            /\ IF importCall.lastImported \in IdsOf(importCall.models)
               THEN ImportSelects(importCall.lastImported)
               ELSE ImportReturns
    /\ op' = Op("importAfterRefresh", 0, <<importCall.lastImported>>)
    /\ UNCHANGED << models, loading, error, refresh, metaVars, chatVars >>

\* await getModelList() resolves in importFromDialog
ImportListResolved ==
    /\ importCall.pc = "relist"
    /\ importCall' = NoImport
    /\ IF importCall.lastImported \in IdsOf(backend.models)
       THEN ImportSelects(importCall.lastImported)
       ELSE ImportReturns
    /\ op' = Op("importListResolved", 0, <<importCall.lastImported>>)
    /\ UNCHANGED << models, loading, error, refresh, metaVars, chatVars >>

\* await getModelList() rejects in importFromDialog: the rejection leaves it
ImportListRejected ==
    /\ importCall.pc = "relist"
    /\ importCall' = NoImport
    /\ ImportReturns
    /\ op' = Op("importListRejected", 0, <<>>)
    /\ UNCHANGED << models, loading, error, refresh, metaVars, chatVars >>

\* The models panel over the backend's registry: the library and the active
\* id the backend starts with are free, the commands answer from them, and
\* the user imports files and leaves the selection to the hook.
InitImport ==
    /\ ChatMounted
    /\ sendsLeft = 0
    /\ deltasLeft = 0
    /\ \E stored \in StoredLists : ModelsMounted(stored)
    /\ MetaMounted
    /\ \E list \in Libraries, active \in {NoModel, "B"} : BackendAt(list, active)

\* what runs while no continuation of importFromDialog is due
ImportStep ==
    \/ SelectAnswered /\ UNCHANGED << importCall, metaVars >>
    \/ \E err \in ModelErrors : SelectRefused(err) /\ UNCHANGED << importCall, metaVars >>
    \/ \E k \in 1..(MaxPending + 2) : BackendSetsActive(k)
    \/ \E k \in 1..(MaxPending + 2) : BackendRefusesActive(k)
    \/ Refresh /\ importCall.pc = "idle" /\ UNCHANGED panelVars
    \/ ListAnswered /\ UNCHANGED << importCall, metaVars >>
    \/ \E err \in ModelErrors : ListRejected(err) /\ UNCHANGED panelVars
    \/ ActiveAnswered /\ UNCHANGED << importCall, metaVars >>
    \/ \E err \in ModelErrors : ActiveRejected(err) /\ UNCHANGED panelVars
    \/ RefreshSelectAnswered /\ UNCHANGED << importCall, metaVars >>
    \/ \E n \in 1..MaxFiles : ImportFromDialog(n)
    \/ \E id \in ImportedIds : ImportResolved(id)
    \/ ImportRejected
    \/ ImportListResolved
    \/ ImportListRejected

\* the continuation after await refresh() runs before any other event
NextImport ==
    \/ RefreshAwaited /\ ImportAfterRefresh
    \/ ~RefreshAwaited /\ ImportStep

SpecImport == InitImport /\ [][NextImport]_vars

\* The models panel over the backend's registry, the user selecting models
\* of a library of three: set_active_model calls are in flight together and
\* the backend handles them in any order.  No command fails here, so every
\* behaviour is one of the program with a healthy backend.
InitBackend ==
    /\ ChatMounted
    /\ sendsLeft = 0
    /\ deltasLeft = 0
    /\ \/ ModelsMounted(<<>>)
       \/ ModelsLoaded(<<"A", "B", "C">>, "C")
    /\ MetaMounted
    /\ BackendAt(<<"A", "B", "C">>, "C")

NextBackend ==
    \/ \E m \in ModelIds : SelectSent(m) /\ UNCHANGED << importCall, metaVars >>
    \/ SelectAnswered /\ UNCHANGED << importCall, metaVars >>
    \/ \E k \in 1..(MaxPending + 1) : BackendSetsActive(k)
    \/ Refresh /\ UNCHANGED panelVars
    \/ ListAnswered /\ UNCHANGED << importCall, metaVars >>
    \/ ActiveAnswered /\ UNCHANGED << importCall, metaVars >>
    \/ RefreshSelectAnswered /\ UNCHANGED << importCall, metaVars >>

SpecBackend == InitBackend /\ [][NextBackend]_vars

\* ------------------------------------------------------------ useModelMeta
\* the cleanup of the effect: the calls in flight have their flag set
Cancelled(cs) == [k \in 1..Len(cs) |-> [cs[k] EXCEPT !.cancelled = TRUE]]

\* the effect on [selectedModel], run with the commit of a step of useModels:
\* it runs again when the selection is another entry, and the pick of a
\* refresh is an entry of the list just fetched
MetaEffect ==
    IF selectedModel' = selectedModel /\ op'.name # "activeResolved"
    THEN UNCHANGED metaVars
    ELSE IF selectedModel' = NoModel
    THEN /\ meta' = NoMeta
         /\ metaLoading' = FALSE
         /\ metaError' = NoError
         /\ metaCalls' = Cancelled(metaCalls)
    ELSE /\ Len(metaCalls) < MaxMetaCalls
         /\ metaLoading' = TRUE
         /\ metaError' = NoError
         /\ metaCalls' = Append(Cancelled(metaCalls),
                                [for |-> selectedModel', cancelled |-> FALSE])
         /\ UNCHANGED meta

\* a step of useModelMeta leaves useModels and the backend alone
MetaFrame ==
    UNCHANGED << models, selectedModel, loading, error, recentIds, localStorage,
                 refresh, pending, importCall, backend, chatVars >>

\* a then-handler that writes the result whatever the flag says
MetaResolvedUnscoped(k, m) ==
    /\ k \in 1..Len(metaCalls)
    /\ meta' = m
    /\ metaLoading' = FALSE
    /\ metaCalls' = RemoveAt(metaCalls, k)
    /\ op' = Op("metaResolved", k, <<metaCalls[k].for>>)
    /\ UNCHANGED metaError
    /\ MetaFrame

\* getModelMetadata() resolves: then and finally
MetaResolved(k, m) ==
    /\ k \in 1..Len(metaCalls)
    /\ IF metaCalls[k].cancelled
       THEN UNCHANGED << meta, metaLoading >>
       ELSE /\ meta' = m
            /\ metaLoading' = FALSE
    /\ metaCalls' = RemoveAt(metaCalls, k)
    /\ op' = Op("metaResolved", k, <<metaCalls[k].for>>)
    /\ UNCHANGED metaError
    /\ MetaFrame

\* getModelMetadata() rejects: catch and finally
MetaRejected(k, err) ==
    /\ k \in 1..Len(metaCalls)
    /\ IF metaCalls[k].cancelled
       THEN UNCHANGED << meta, metaError, metaLoading >>
       ELSE /\ meta' = NoMeta
            /\ metaError' = err
            /\ metaLoading' = FALSE
    /\ metaCalls' = RemoveAt(metaCalls, k)
    /\ op' = Op("metaRejected", k, <<metaCalls[k].for>>)
    /\ MetaFrame

\* a step of useModels and the effect of useModelMeta on its commit
WithMeta(A) == A /\ MetaEffect /\ UNCHANGED << importCall, backend >>

\* the models panel with the metadata of the selected model
InitMeta ==
    /\ ChatMounted
    /\ sendsLeft = 0
    /\ deltasLeft = 0
    /\ ModelsMounted(<<>>)
    /\ MetaMounted
    /\ BackendAt(<<>>, NoModel)

NextMeta ==
    \/ \E m \in {"A", "B"} : WithMeta(Select(m))
    \/ WithMeta(SelectResolved)
    \/ \E err \in ModelErrors : WithMeta(SelectRejected(err))
    \/ WithMeta(Refresh)
    \/ \E list \in Catalogs : WithMeta(ListResolved(list))
    \/ \E err \in ModelErrors : WithMeta(ListRejected(err))
    \/ \E activeId \in {"A", "B", NoModel} : WithMeta(ActiveResolved(activeId))
    \/ \E err \in ModelErrors : WithMeta(ActiveRejected(err))
    \/ \E ok \in BOOLEAN : WithMeta(RefreshSelectSettled(ok))
    \/ \E k \in 1..MaxMetaCalls, m \in Metas : MetaResolved(k, m)
    \/ \E k \in 1..MaxMetaCalls, err \in ModelErrors : MetaRejected(k, err)

SpecMeta == InitMeta /\ [][NextMeta]_vars

\* ---------------------------------------------------------- specification
Next ==
    \/ \E v \in Inputs : SetInput(v)
    \/ ToggleStreaming
    \/ NewChat
    \/ SendMessage
    \/ Stop
    \/ StopResolved
    \/ StopRejected
    \/ \E i \in Calls : ListenStreamResolved(i)
    \/ \E i \in Calls, err \in Errors : ListenStreamRejected(i, err)
    \/ \E i \in Calls : ListenDoneResolved(i)
    \/ \E i \in Calls, err \in Errors : ListenDoneRejected(i, err)
    \/ \E i \in Calls : StreamResolved(i)
    \/ \E i \in Calls, err \in Errors : StreamRejected(i, err)
    \/ \E i \in Calls, r \in Responses : GenerateResolved(i, r)
    \/ \E i \in Calls, err \in Errors : GenerateRejected(i, err)
    \/ \E i \in Calls, d \in Deltas : EmitDelta(i, d)
    \/ \E i \in Calls, t \in Finals : EmitComplete(i, t)
    \/ DeliverStream
    \/ DeliverComplete

Spec == Init /\ [][Next]_vars

\* Three sessions over a lean environment: one more sendMessage than Spec,
\* no llm-stream events, no cancel and no newChat.  Every behaviour of it is a
\* behaviour of the program, so it serves to refute, never to confirm.
InitSessions ==
    /\ Mounted
    /\ sendsLeft = MaxSends + 1
    /\ deltasLeft = 0

NextSessions ==
    \/ \E v \in Inputs : SetInput(v)
    \/ ToggleStreaming
    \/ SendMessage
    \/ \E i \in Calls : ListenStreamResolved(i)
    \/ \E i \in Calls : ListenDoneResolved(i)
    \/ \E i \in Calls : StreamResolved(i)
    \/ \E i \in Calls, err \in Errors : StreamRejected(i, err)
    \/ \E i \in Calls, r \in Responses : GenerateResolved(i, r)
    \/ \E i \in Calls, err \in Errors : GenerateRejected(i, err)
    \/ \E i \in Calls, t \in Finals : EmitComplete(i, t)
    \/ DeliverComplete

SpecSessions == InitSessions /\ [][NextSessions]_vars

\* One streaming session caught in mid-stream: its turn holds an accumulated
\* text, both listeners are attached, the request is running, and the
\* backend emits one more fragment, which the transport delivers.
InitReconcile ==
    /\ \E P \in Texts : messages = << [user |-> <<"q">>, ai |-> P, sid |-> 1] >>
    /\ input = <<>>
    /\ isGenerating = TRUE
    /\ streamingEnabled = TRUE
    /\ unlistenStreamRef = 1
    /\ unlistenDoneRef = 2
    /\ streamListeners = {1}
    /\ doneListeners = {2}
    /\ nextHandle = 3
    /\ calls = [i \in Calls |->
                  IF i = 1 THEN [pc |-> "stream", hs |-> 1, hd |-> 2]
                  ELSE [pc |-> "idle", hs |-> NoHandle, hd |-> NoHandle]]
    /\ req = [i \in Calls |-> IF i = 1 THEN "running" ELSE "none"]
    /\ queue = <<>>
    /\ sendsLeft = 0
    /\ deltasLeft = 1
    /\ cancelPending = 0
    /\ cancelRequested = FALSE
    /\ delivered = <<>>
    /\ deltaUpdate = FALSE
    /\ ModelsMounted(<<>>)
    /\ MetaMounted
    /\ BackendAt(<<>>, NoModel)
    /\ op = Op("listenDone", 1, <<>>)

NextReconcile ==
    \/ \E F \in Texts : EmitDelta(1, F)
    \/ DeliverStream

SpecReconcile == InitReconcile /\ [][NextReconcile]_vars

\* ------------------------------------------------------------- vocabulary
HasTurn == Len(messages) > 0
LastAi  == messages[Len(messages)].ai

\* the turns invocation i seeded that are still in the transcript
TurnsOf(i) == { k \in 1..Len(messages) : messages[k].sid = i }

\* the reconciler folded left to right over a sequence of deltas
RECURSIVE Fold(_, _)
Fold(text, ds) ==
    IF ds = <<>> THEN text
    ELSE Fold(text \o DeltaToAppend(text, Head(ds)), Tail(ds))

\* what ChatTranscript shows for turn k: extractThinkStreaming(m.ai ?? "")
Rendered(k) == extractThinkStreaming(messages[k].ai)

\* the positions where tag occurs in s
Occurrences(s, tag) ==
    { k \in 1..(Len(s) - Len(tag) + 1) : SubSeq(s, k, k + Len(tag) - 1) = tag }

\* the position of the first open-marker of s (s has one)
FirstOpen(s) ==
    CHOOSE k \in Occurrences(s, OPEN_TAG) : \A m \in Occurrences(s, OPEN_TAG) : k <= m

\* the positions of the close-markers after the first open-marker of s
ClosesAfterOpen(s) ==
    { k \in Occurrences(s, CLOSE_TAG) : k >= FirstOpen(s) + Len(OPEN_TAG) }

\* the position of the first close-marker after the first open-marker
FirstClose(s) ==
    CHOOSE k \in ClosesAfterOpen(s) : \A m \in ClosesAfterOpen(s) : k <= m

\* s without the characters of its open-markers and close-markers
WithoutMarkers(s) ==
    LET covered == { k \in 1..Len(s) :
                        \/ \E j \in Occurrences(s, OPEN_TAG) : j <= k /\ k < j + Len(OPEN_TAG)
                        \/ \E j \in Occurrences(s, CLOSE_TAG) : j <= k /\ k < j + Len(CLOSE_TAG) }
        kept    == (1..Len(s)) \ covered
    IN  IF covered = {} THEN s
        ELSE [ i \in 1..Cardinality(kept) |->
                 s[CHOOSE k \in kept : Cardinality({ j \in kept : j <= k }) = i] ]

\* the generate_stream request of invocation i has been issued
StreamIssued(i) == req[i] \in {"running", "completed", "failed"}

C2_SubscribeBeforeInvoke ==
    \A i \in Calls : StreamIssued(i) =>
        calls[i].hs # NoHandle /\ calls[i].hd # NoHandle

\* the step that issues generate_stream has just run, both listeners live
C2_Witness ==
    /\ op.name = "listenDone"
    /\ req[op.sid] = "running"
    /\ calls[op.sid].hs \in streamListeners
    /\ calls[op.sid].hd \in doneListeners

LiveOf(i) ==
    ({calls[i].hs} \cap streamListeners) \cup ({calls[i].hd} \cap doneListeners)

\* nothing of any invocation is still in flight
Quiescent ==
    /\ queue = <<>>
    /\ \A i \in Calls : calls[i].pc \in {"idle", "done", "caught"}
    /\ \A i \in Calls : req[i] # "running"

\* C4: the completion handler leaves the generating flag clear and both
\* handles released; the two listeners an invocation acquired are released
\* together (never one live and the other released); and once nothing is in
\* flight every acquired listener has been released.
C4_ReleasedTogetherOnce ==
    /\ op.name = "complete" =>
           /\ ~isGenerating
           /\ unlistenStreamRef = NoHandle
           /\ unlistenDoneRef = NoHandle
    /\ \A i \in Calls :
           calls[i].hs # NoHandle /\ calls[i].hd # NoHandle =>
               (calls[i].hs \in streamListeners <=> calls[i].hd \in doneListeners)
    /\ Quiescent => streamListeners = {} /\ doneListeners = {}

\* this step clears the generating flag or releases a listener or a handle
EndsSession ==
    \/ isGenerating /\ ~isGenerating'
    \/ ~(streamListeners \subseteq streamListeners')
    \/ ~(doneListeners \subseteq doneListeners')
    \/ unlistenStreamRef # NoHandle /\ unlistenStreamRef' = NoHandle
    \/ unlistenDoneRef # NoHandle /\ unlistenDoneRef' = NoHandle

\* C5: from the stop() call on, in a streaming session, the generating flag
\* stays set and the listeners stay attached through every step that is not
\* the completion handler or a catch block: neither stop() itself, nor
\* further stop() calls, nor the cancel request resolving or rejecting end
\* the session.
C5_CancelNeverEndsSession ==
    [][/\ cancelRequested \/ op'.name = "stop"
       /\ isGenerating
       /\ \A i \in Calls : calls[i].pc # "generate"
       /\ EndsSession
       => op'.name \in {"complete", "catch"}]_vars

\* the cancel request has settled and the session is still streaming with
\* both listeners attached
C5_Witness ==
    /\ op.name \in {"stopResolved", "stopRejected"}
    /\ cancelRequested
    /\ isGenerating
    /\ \E i \in Calls :
           /\ calls[i].pc = "stream"
           /\ calls[i].hs \in streamListeners
           /\ calls[i].hd \in doneListeners
           /\ unlistenStreamRef = calls[i].hs
           /\ unlistenDoneRef = calls[i].hd

\* C6: a delta delivered to a live listener after stop() was called and
\* before the session ended is reconciled like any other: the last turn's
\* text becomes its old text followed by the delta with its overlap trimmed
\* and its tag runs collapsed, once per live listener, and nothing else of
\* the transcript changes.
C6_DeltaAfterCancelReconciled ==
    [][op'.name = "delta" /\ cancelRequested /\ isGenerating =>
         /\ messages' = DeliverDelta(messages, op'.text,
                                     Cardinality(streamListeners))
         /\ (HasTurn /\ Cardinality(streamListeners) = 1 =>
                messages'[Len(messages)].ai =
                    LastAi \o DeltaToAppend(LastAi, op'.text))]_vars

\* after stop(), a second delta was trimmed against the first, had its
\* doubled tag collapsed and shows in the turn while the session goes on
C6_Witness ==
    /\ op.name = "delta"
    /\ op.text = <<"b">> \o OPEN_TAG \o OPEN_TAG
    /\ cancelRequested
    /\ isGenerating
    /\ HasTurn
    /\ LastAi = <<"a", "b">> \o OPEN_TAG

\* C7: right after the catch block of a streaming invocation has run (a
\* listener could not be attached, or generate_stream failed), the turn that
\* invocation seeded reads the error message, the generating flag is clear,
\* no listener the invocation acquired is still live, and the invocation has
\* returned.
C7_FailureHandled ==
    op.name = "catch" =>
        /\ \A k \in TurnsOf(op.sid) : messages[k].ai = ErrorText(op.text)
        /\ ~isGenerating
        /\ LiveOf(op.sid) = {}
        /\ calls[op.sid].pc = "caught"

\* the completion handler is about to run on the last turn
CompletionDue ==
    /\ queue # <<>>
    /\ Head(queue).type = "complete"
    /\ doneListeners # {}
    /\ HasTurn

\* C8: when the completion event is next to be processed, every delta the
\* listener was handed since the turn was seeded has been reconciled, in
\* the order of delivery: the last turn's text is the fold of the reconciler
\* over those deltas, starting from the empty seed.
C8_TextIsFoldOfDelivered ==
    CompletionDue => LastAi = Fold(<<>>, delivered)

\* SpecSessions with the scheduling the runtime provides: a queued
\* llm-complete event is eventually dispatched and a pending listen call
\* eventually resolves; and with a backend that answers: a generate request
\* eventually resolves and a running stream eventually emits llm-complete.
LiveSessions ==
    /\ SpecSessions
    /\ WF_vars(DeliverComplete)
    /\ \A i \in Calls : WF_vars(ListenStreamResolved(i))
    /\ \A i \in Calls : WF_vars(ListenDoneResolved(i))
    /\ \A i \in Calls : WF_vars(\E r \in Responses : GenerateResolved(i, r))
    /\ \A i \in Calls : WF_vars(\E t \in Finals : EmitComplete(i, t))

\* the llm-complete event of streaming session i has just been delivered
CompleteDelivered(i) ==
    /\ op.name \in {"complete", "completeDropped"}
    /\ op.sid = i

\* the controller is idle as far as session i is concerned
IdleAfter(i) ==
    /\ ~isGenerating
    /\ LiveOf(i) = {}

\* C9: for every streaming session whose start request does not fail, once
\* its llm-complete event has been delivered the controller eventually is
\* idle: the generating flag is clear and both listeners of that session are
\* released.
C9_CompletedSessionReachesIdle ==
    \A i \in Calls :
        CompleteDelivered(i) ~> (IdleAfter(i) \/ calls[i].pc = "caught")

\* invocation i took the non-streaming path
SingleShot(i) == req[i] \in {"single", "singleDone", "singleFailed"}

\* C10: a non-streaming sendMessage attaches no listener; once its seed is
\* in the transcript that turn is the only one it seeded; and right after
\* its generate request settles the generating flag is clear and that turn
\* holds the returned text on success, the inline error message on failure.
C10_SingleShotSettlesOwnTurn ==
    /\ \A i \in Calls :
           SingleShot(i) =>
               /\ calls[i].hs = NoHandle /\ calls[i].hd = NoHandle
               /\ Cardinality(TurnsOf(i)) <= 1
    /\ op.name = "generateResolved" =>
           /\ ~isGenerating
           /\ \A k \in TurnsOf(op.sid) : messages[k].ai = op.text
    /\ op.name = "generateRejected" =>
           /\ ~isGenerating
           /\ \A k \in TurnsOf(op.sid) : messages[k].ai = ErrorText(op.text)

\* the last turn is kept by the step and its assistant text gets shorter
TextShrinks ==
    /\ HasTurn
    /\ Len(messages') = Len(messages)
    /\ Len(messages'[Len(messages)].ai) < Len(LastAi)

\* C11 as stated: while the generating flag is set, no step makes the
\* assistant text of the turn shorter.
C11_LengthNeverDecreases ==
    [][isGenerating => ~TextShrinks]_vars

\* C11: while the generating flag is set, a step that reconciles a delta
\* never makes the assistant text of the turn shorter; the only steps that
\* do are the ones that replace the text: the completion handler, the catch
\* block, and the settling of a non-streaming request.
C11_OnlyReplacingStepsShorten ==
    [][isGenerating /\ TextShrinks =>
         op'.name \in {"complete", "catch", "generateResolved",
                       "generateRejected"}]_vars

\* a delta has just lengthened a non-empty text of a running session
C11_Witness ==
    /\ op.name = "delta"
    /\ isGenerating
    /\ HasTurn
    /\ Len(delivered) >= 2
    /\ Len(LastAi) > Len(Fold(<<>>, SubSeq(delivered, 1, Len(delivered) - 1)))
    /\ Fold(<<>>, SubSeq(delivered, 1, Len(delivered) - 1)) # <<>>

\* P is a prefix of text
IsPrefix(P, text) == Len(P) <= Len(text) /\ SubSeq(text, 1, Len(P)) = P

\* C12: reconciling a fragment leaves the accumulated text an unchanged
\* prefix of the result, marker runs in it included, so the length never
\* decreases.
C12_AppendOnly ==
    [][op'.name = "delta" /\ HasTurn =>
         /\ Len(messages') = Len(messages)
         /\ IsPrefix(LastAi, messages'[Len(messages)].ai)
         /\ Len(messages'[Len(messages)].ai) >= Len(LastAi)]_vars

\* a fragment with a doubled open-marker was reconciled onto a text that
\* begins with a doubled open-marker: the fragment's run is collapsed, the
\* committed one is not
C12_Witness ==
    /\ op.name = "delta"
    /\ op.text = <<"a">> \o OPEN_TAG \o OPEN_TAG
    /\ HasTurn
    /\ LastAi = OPEN_TAG \o OPEN_TAG \o <<"a">> \o OPEN_TAG

\* the largest L in 1..min(200, len(P), len(F)) such that the last L
\* characters of P are the first L characters of F; 0 if there is none
OverlapLength(P, F) ==
    LET bound == Min(MaxWindow, Min(Len(P), Len(F)))
        fits  == { L \in 1..bound :
                      SubSeq(P, Len(P) - L + 1, Len(P)) = SubSeq(F, 1, L) }
    IN  IF fits = {} THEN 0 ELSE CHOOSE L \in fits : \A m \in fits : m <= L

\* F without its first L characters, marker runs collapsed
ExpectedAppend(P, F) ==
    LET rest == SubSeq(F, OverlapLength(P, F) + 1, Len(F))
    IN  CollapseRuns(CollapseRuns(rest, OPEN_TAG), CLOSE_TAG)

\* C13: the text the reconciler appends is the fragment without its first
\* L characters and with every run of open-markers, and of close-markers,
\* collapsed to one, L being the longest overlap within the 200-character
\* window between the end of the accumulated text and the start of the
\* fragment.
C13_AppendsTrimmedCollapsedFragment ==
    [][op'.name = "delta" /\ HasTurn =>
         messages'[Len(messages)].ai =
             LastAi \o ExpectedAppend(LastAi, op'.text)]_vars

\* "quick brown fox" reconciled after "The quick" appended " brown fox"
C13_Witness ==
    /\ op.name = "delta"
    /\ op.text = QuickBrownFox
    /\ HasTurn
    /\ LastAi = TheQuick \o SubSeq(QuickBrownFox, 6, Len(QuickBrownFox))

\* C14: when the fragment is empty, or nothing of it is left after overlap
\* trimming and marker collapsing, reconciling it leaves the transcript as
\* it was and hands React no new transcript array.
C14_EmptyFragmentIsNoOp ==
    [][op'.name = "delta" /\ HasTurn /\ ExpectedAppend(LastAi, op'.text) = <<>> =>
         /\ messages' = messages
         /\ ~deltaUpdate']_vars

\* the parts of a text around its first reasoning block
BeforeOpen(s) == SubSeq(s, 1, FirstOpen(s) - 1)
AfterOpen(s) == SubSeq(s, FirstOpen(s) + Len(OPEN_TAG), Len(s))
Between(s) == SubSeq(s, FirstOpen(s) + Len(OPEN_TAG), FirstClose(s) - 1)
AfterClose(s) == SubSeq(s, FirstClose(s) + Len(CLOSE_TAG), Len(s))

\* the turns whose text has an open-marker and a close-marker after it
ClosedBlockTurns ==
    { k \in 1..Len(messages) :
        /\ Occurrences(messages[k].ai, OPEN_TAG) # {}
        /\ ClosesAfterOpen(messages[k].ai) # {} }

\* C15 as stated: for a text with an open-marker and a close-marker after
\* it, the parser returns state closed, as reasoning the text between the
\* first open-marker and the first close-marker after it without markers,
\* and as visible text the text before the open-marker followed by the text
\* after that close-marker, without markers.
C15_ClosedBlockVerbatim ==
    \A k \in ClosedBlockTurns :
        LET s == messages[k].ai
        IN  Rendered(k) = Parsed(TRUE,
                                 WithoutMarkers(Between(s)),
                                 WithoutMarkers(BeforeOpen(s) \o AfterClose(s)),
                                 FALSE)

\* C15: as above, with leading and trailing whitespace removed from both the
\* reasoning and the visible text.  A later open/close pair is not a block:
\* its text is part of the visible text.
C15_ClosedBlockTrimmed ==
    \A k \in ClosedBlockTurns :
        LET s == messages[k].ai
        IN  Rendered(k) = Parsed(TRUE,
                                 Trim(WithoutMarkers(Between(s))),
                                 Trim(WithoutMarkers(BeforeOpen(s) \o AfterClose(s))),
                                 FALSE)

\* a text with two open/close pairs: the first holds only a space, which is
\* trimmed away; the text of the second is shown as visible text
C15_Witness ==
    /\ HasTurn
    /\ LastAi = OPEN_TAG \o <<" ">> \o CLOSE_TAG \o OPEN_TAG \o <<"a">> \o CLOSE_TAG
    /\ Rendered(Len(messages)) = Parsed(TRUE, <<>>, <<"a">>, FALSE)

\* the turns whose text has an open-marker and no close-marker after it
OpenBlockTurns ==
    { k \in 1..Len(messages) :
        /\ Occurrences(messages[k].ai, OPEN_TAG) # {}
        /\ ClosesAfterOpen(messages[k].ai) = {} }

\* C16 as stated: for a text with an open-marker and no close-marker after
\* it, the parser returns state open, as visible text the text before the
\* first open-marker without markers, and as reasoning the text after that
\* open-marker without markers.
C16_OpenBlockVerbatim ==
    \A k \in OpenBlockTurns :
        LET s == messages[k].ai
        IN  Rendered(k) = Parsed(TRUE,
                                 WithoutMarkers(AfterOpen(s)),
                                 WithoutMarkers(BeforeOpen(s)),
                                 TRUE)

\* C16: as above, with leading and trailing whitespace removed from both the
\* reasoning and the visible text.
C16_OpenBlockTrimmed ==
    \A k \in OpenBlockTurns :
        LET s == messages[k].ai
        IN  Rendered(k) = Parsed(TRUE,
                                 Trim(WithoutMarkers(AfterOpen(s))),
                                 Trim(WithoutMarkers(BeforeOpen(s))),
                                 TRUE)

\* an unclosed block after a stray close-marker, with a repeated
\* open-marker inside and spaces around the reasoning
C16_Witness ==
    /\ HasTurn
    /\ LastAi = CLOSE_TAG \o OPEN_TAG \o OPEN_TAG \o <<" ", "a", " ">>
    /\ Rendered(Len(messages)) = Parsed(TRUE, <<"a">>, <<>>, TRUE)

\* the turns whose text has no open-marker
PlainTurns ==
    { k \in 1..Len(messages) : Occurrences(messages[k].ai, OPEN_TAG) = {} }

\* C17: for a text without an open-marker the parser returns the whole
\* text, without its close-markers and otherwise untouched, as visible
\* text, no reasoning, and state closed.
C17_PlainTextAllVisible ==
    \A k \in PlainTurns :
        Rendered(k) = Parsed(FALSE, <<>>, WithoutMarkers(messages[k].ai), FALSE)

\* a text with stray close-markers and spaces at both ends is shown without
\* the markers and with the spaces
C17_Witness ==
    /\ HasTurn
    /\ LastAi = <<" ">> \o CLOSE_TAG \o <<"a">> \o CLOSE_TAG \o <<" ">>
    /\ Rendered(Len(messages)) = Parsed(FALSE, <<>>, <<" ", "a", " ">>, FALSE)

\* the precedence of the active model: the backend's active id if it is in
\* the catalog, else the first stored id that is in the catalog, else the
\* first catalog entry, and none for an empty catalog
ResolveActive(catalog, active, persisted) ==
    LET hits == { k \in 1..Len(persisted) : persisted[k] \in IdsOf(catalog) }
    IN  IF catalog = <<>> THEN NoModel
        ELSE IF active \in IdsOf(catalog) THEN active
        ELSE IF hits # {} THEN persisted[CHOOSE k \in hits : \A m \in hits : k <= m]
        ELSE catalog[1]

\* C18: the selection a refresh makes follows the precedence: when the list
\* comes back empty the selection is none, and when the backend's active id
\* arrives the selection is resolved from the list, that id and the stored
\* recency list.
C18_RefreshFollowsPrecedence ==
    [][/\ op'.name = "listResolved" /\ op'.text = <<>> =>
              selectedModel' = ResolveActive(<<>>, NoModel, loadRecentIds)
       /\ op'.name = "activeResolved" =>
              selectedModel' = ResolveActive(refresh.list, op'.text[1], loadRecentIds)]_vars

\* catalog [A, B, C], stored list [B, Z], no active id at the backend: the
\* refresh selected B
C18_Witness ==
    /\ op.name = "activeResolved"
    /\ op.text = <<NoModel>>
    /\ models = <<"A", "B", "C">>
    /\ selectedModel = "B"
    /\ recentIds = <<"B", "Z">>
    /\ pending = 0

\* no id occurs twice in list
NoDuplicates(list) ==
    \A j, k \in 1..Len(list) : list[j] = list[k] => j = k

\* at most MAX_RECENT entries, no id twice
CappedAndUnique(list) ==
    /\ Len(list) <= MAX_RECENT
    /\ NoDuplicates(list)

\* a model has just been selected: select(m) by the user or by refresh()
JustSelected == op.name \in {"select", "activeResolved"}

\* the stored list and the list the hook returns are capped and free of
\* duplicates, and a model just selected is at the front of both
RecencyListsOk ==
    /\ CappedAndUnique(loadRecentIds)
    /\ CappedAndUnique(recent)
    /\ JustSelected =>
           /\ Head(loadRecentIds) = selectedModel
           /\ selectedModel \in IdsOf(models) => Head(recent) = selectedModel

\* C19: the stored recency list and the list the hook returns have at most
\* MAX_RECENT entries and no duplicate id at every moment, with the model
\* just selected at the front; and a select puts the selected id at the
\* front of the stored list, keeps the other ids in their order and drops
\* what is beyond MAX_RECENT entries.
C19_RecencyCappedUniqueNewestFirst ==
    /\ []RecencyListsOk
    /\ [][op'.name \in {"select", "activeResolved"} =>
            localStorage'.values =
                JsonStrings(
                    SubSeq(<<selectedModel'>> \o Without(loadRecentIds, selectedModel'),
                           1, Min(MAX_RECENT, 1 + Len(Without(loadRecentIds, selectedModel')))))]_vars

\* six distinct models were selected one after the other, F last: the
\* stored list and the returned list hold the five newest, F first
C19_Witness ==
    /\ op.name = "select"
    /\ op.text = <<"F">>
    /\ Len(recentIds) = 6
    /\ loadRecentIds = <<"F", "E", "D", "C", "B">>
    /\ recent = <<"F", "E", "D", "C", "B">>

\* right after select(m) has run up to its await, with the backend call
\* still in flight, m is the selection and is at the front of the list in
\* memory and of the stored list
OptimisticSelect ==
    /\ op.name = "select" =>
           /\ pending > 0
           /\ selectedModel = op.text[1]
           /\ Head(recentIds) = op.text[1]
           /\ Head(loadRecentIds) = op.text[1]
    /\ op.name = "activeResolved" =>
           /\ refresh.pc = "select"
           /\ Head(recentIds) = selectedModel
           /\ Head(loadRecentIds) = selectedModel

\* C20: select is optimistic, and a failure of set_active_model changes
\* neither the selection nor the recency list, in memory and stored, nor the
\* error state.
C20_SelectOptimisticNoRollback ==
    /\ []OptimisticSelect
    /\ [][op'.name = "setActiveRejected" =>
            UNCHANGED << selectedModel, recentIds, localStorage, error, models >>]_vars

\* the user selected B, set_active_model failed, and B is still selected
\* and first in both lists, with no error reported
C20_Witness ==
    /\ op.name = "setActiveRejected"
    /\ op.sid = 0
    /\ pending = 0
    /\ selectedModel = "B"
    /\ Head(recentIds) = "B"
    /\ Head(loadRecentIds) = "B"
    /\ error = NoError

\* importFromDialog returns in this step
ImportEnds == importCall.pc # "idle" /\ importCall'.pc = "idle"

\* C21: when importFromDialog returns after a batch in which at least one
\* file was imported, and the refresh it made went through and lists the
\* last model imported, and no command of the lookup failed, every file has
\* been attempted and that model is the selected model.
C21_ImportSelectsLastImported ==
    [][(/\ ImportEnds
        /\ op'.name # "importListRejected"
        /\ importCall.lastImported # NoModel
        /\ error' = NoError
        /\ importCall.lastImported \in IdsOf(models')) =>
            /\ importCall.left = 0
            /\ selectedModel' = importCall.lastImported]_vars

\* C22: when get_active_model fails during a refresh, the fetched catalog is
\* kept and the selection is resolved as with no active id at the backend:
\* the first stored id that is in the catalog, else the first catalog entry.
C22_ActiveFailureFallsBack ==
    [][op'.name = "activeRejected" =>
            /\ models' = refresh.list
            /\ selectedModel' = ResolveActive(refresh.list, NoModel, loadRecentIds)]_vars

\* C23: when get_model_list fails during a refresh, the refresh returns with
\* an empty catalog, no selected model, the error as text and the loading
\* flag cleared.
C23_ListFailureEmptiesStore ==
    [][op'.name = "listRejected" =>
            /\ models' = <<>>
            /\ selectedModel' = NoModel
            /\ error' = op'.text[1]
            /\ loading' = FALSE
            /\ refresh'.pc = "idle"]_vars

\* a refresh failed at the list after a model of an earlier catalog had been
\* selected
C23_Witness ==
    /\ op.name = "listRejected"
    /\ recentIds # <<>>
    /\ Head(recentIds) = "A"
    /\ models = <<>>
    /\ selectedModel = NoModel
    /\ error = "e"
    /\ ~loading

\* the item under RECENT_KEY is absent, cannot be read or parsed, or is no array
BrokenItem == localStorage.item \in {"absent", "unparsable", "notArray", "unreadable"}

\* the item is an array with an element that is not a string
MixedArray ==
    /\ localStorage.item = "array"
    /\ \E k \in 1..Len(localStorage.values) : ~localStorage.values[k].isString

\* the strings of the stored array, in their order
StoredStrings ==
    LET at == { k \in 1..Len(localStorage.values) : localStorage.values[k].isString }
        nth(n) == CHOOSE k \in at : Cardinality({ j \in at : j < k }) = n - 1
    IN  [n \in 1..Cardinality(at) |-> localStorage.values[nth(n)].v]

\* a step in which select(m) runs up to its await while setItem throws
SelectOverDeadStorage ==
    /\ op'.name \in {"select", "activeResolved"}
    /\ ~localStorage.writable

\* C24 as stated: an item that is absent, unparsable or not a list of ids
\* reads as the empty list.
C24_NotAListOfIdsReadsEmpty ==
    BrokenItem \/ MixedArray => loadRecentIds = <<>>

\* C24: an item that is absent, unreadable, unparsable or no array reads as
\* the empty list, and an array reads as its strings in order; the hook mounts
\* with that list and no error; a refresh over such an item resolves the
\* selection as with an empty recency list; and a select whose write to
\* storage fails still selects the model and puts it at the front of the
\* list in memory, leaving the stored item and the error state as they were.
C24_BrokenStorageReadsEmpty ==
    /\ [](BrokenItem => loadRecentIds = <<>>)
    /\ [](localStorage.item = "array" => loadRecentIds = StoredStrings)
    /\ [](op.name = "init" => recentIds = loadRecentIds /\ error = NoError)
    /\ [][op'.name = "activeResolved" /\ BrokenItem =>
            selectedModel' = ResolveActive(refresh.list, op'.text[1], <<>>)]_vars
    /\ [][SelectOverDeadStorage =>
            /\ Head(recentIds') = selectedModel'
            /\ UNCHANGED << localStorage, error >>]_vars

\* storage holds JSON that is no array and cannot be written: a refresh over
\* the catalog [A, B, C] with no active id at the backend selected A, which
\* is now the only id of the list in memory
C24_Witness ==
    /\ op.name = "activeResolved"
    /\ op.text = <<NoModel>>
    /\ localStorage.item = "notArray"
    /\ ~localStorage.writable
    /\ models = <<"A", "B", "C">>
    /\ selectedModel = "A"
    /\ recentIds = <<"A">>
    /\ error = NoError

\* a get_model_metadata call settles in this step after the selection has
\* changed since it was started: the selection is another model or none, or
\* a later call has been started
StaleMetaSettles ==
    /\ op'.name \in {"metaResolved", "metaRejected"}
    /\ \/ op'.text[1] # selectedModel
       \/ op'.sid < Len(metaCalls)

OnlyLastAiMayChange ==
    /\ Len(messages') >= Len(messages)
    /\ \A k \in 1..Len(messages) :
           /\ messages'[k].user = messages[k].user
           /\ (k < Len(messages) \/ Len(messages') > Len(messages)) =>
                  messages'[k].ai = messages[k].ai

\* C26: every step other than newChat, which discards the transcript, leaves
\* the user text of every turn and the assistant text of every turn but the
\* last as they are; sendMessage only adds a turn.
C26_OnlyLastAiChanges ==
    [][op'.name # "newChat" => OnlyLastAiMayChange]_vars

\* the completion of the second session wrote the second turn, and the first
\* turn still holds the text of the first session
C26_Witness ==
    /\ Len(messages) = 2
    /\ op.name = "complete"
    /\ op.sid = 2
    /\ messages[1].ai = <<"a", "b">>
    /\ messages[2].ai = <<"a", "b">>
    /\ messages[1].user # <<>>

\* C27: whenever the generating flag is clear, neither the llm-stream nor the
\* llm-complete subscription is held: both refs are null and the event
\* system has no live listener of the hook.
C27_NoListenerLeak ==
    ~isGenerating =>
        /\ unlistenStreamRef = NoHandle
        /\ unlistenDoneRef = NoHandle
        /\ streamListeners = {}
        /\ doneListeners = {}

\* the start request of session i is reported as failed in this step, after
\* its completion has fired and after the next session has been started
LateFailure(i) ==
    /\ op'.name = "catch"
    /\ op'.sid = i
    /\ req[i] = "completed"
    /\ i + 1 \in Calls
    /\ calls[i + 1].pc # "idle"

\* C28: the handling of a late failure of session i changes neither the turn
\* text nor the generating flag nor the subscriptions of session i + 1.
C28_LateFailureIsolated ==
    [][\A i \in Calls :
           LateFailure(i) =>
               UNCHANGED << messages, isGenerating, unlistenStreamRef,
                            unlistenDoneRef, streamListeners, doneListeners >>]_vars

\* the user selected a model while the refresh awaited get_active_model,
\* and the answer arrives in this step
PickAfterUserSelect ==
    /\ op.name = "select"
    /\ refresh.pc = "active"
    /\ op'.name = "activeResolved"

\* C29: a model the user selected while a refresh was in flight is still the
\* selected model and the front of the recency list when the refresh applies
\* its pick.
C29_UserSelectionSurvivesRefresh ==
    [][PickAfterUserSelect =>
            /\ selectedModel' = selectedModel
            /\ Head(recentIds') = selectedModel]_vars

\* two selects of the user are awaiting their answers, the later one made
\* the selection, the backend has handled both calls successfully, and no
\* refresh is running
BothSelectsHandled ==
    /\ pending = 2
    /\ Len(backend.calls) = 2
    /\ \A k \in 1..2 : backend.calls[k].owner = "user" /\ backend.calls[k].state = "ok"
    /\ backend.calls[2].id = selectedModel
    /\ refresh.pc = "idle"

\* C30: once the backend has handled the set_active_model calls of two
\* selects successfully, its active id is the selected model, the model of
\* the later select, in whatever order it handled the two calls.
C30_BackendFollowsLastSelect ==
    BothSelectsHandled => backend.active = selectedModel

====
